---- MODULE Spec2Model ----
(***************************************************************************)
(* A model of the MCP Webpublication server: the startup sequence of       *)
(* main, the environment-driven configuration, the shared reqwest client   *)
(* with its cookie store, the three request helpers and the five tool      *)
(* handlers.  A handler is cut at its `.send().await`: the first half      *)
(* builds and sends the request, the second half receives the upstream's   *)
(* answer and builds the tool result.                                      *)
(***************************************************************************)
EXTENDS Integers, Sequences, FiniteSets, TLC

VARIABLES
    env,            \* the process environment: variable name -> value
    main_pc,        \* position of main: "start", "constructed", "serving", "failed"
    startup_error,  \* the error main returned with, "" while there is none
    config,         \* Option<ApiConfig> of the WebPublication instance: <<>> or <<cfg>>
    jar,            \* cookie store of the shared client: set of [host, id]
    calls           \* the tool calls being handled, one per slot

vars == <<env, main_pc, startup_error, config, jar, calls>>

---------------------------------------------------------------------------
(* Bounds of the model *)

MaxInFlight == 2    \* tool calls handled concurrently
MaxGid == 10        \* largest resource identifier drawn
MaxBodyLen == 3     \* bytes of an image body
MaxMembers == 2     \* members of a JSON object or array sent by the upstream
MaxCookies == 1     \* distinct cookies the upstream sets

---------------------------------------------------------------------------
(* Environment and configuration *)

EnvVars == <<"API_URL", "DRIVE_URL", "CLIENT_ID", "WP_TOKEN", "DRIVE_TOKEN">>

EnvValue(name) ==
    CASE name = "API_URL"     -> "https://api.example/"
      [] name = "DRIVE_URL"   -> "https://drive.example/"
      [] name = "CLIENT_ID"   -> "client42"
      [] name = "WP_TOKEN"    -> "wp-secret"
      [] name = "DRIVE_TOKEN" -> "drive-secret"

\* std::env::var(name): Ok(value) when the lookup succeeds, Err otherwise.
env_var(e, name) ==
    IF name \in DOMAIN e THEN [ok |-> TRUE, value |-> e[name]]
                         ELSE [ok |-> FALSE, value |-> ""]

\* from_env with CLIENT_ID looked up before DRIVE_URL
from_env_reordered(e) ==
    LET failing == {n \in {"API_URL", "DRIVE_URL", "CLIENT_ID", "WP_TOKEN", "DRIVE_TOKEN"} :
                       ~env_var(e, n).ok}
        first == IF "API_URL" \in failing THEN "API_URL"
                 ELSE IF "CLIENT_ID" \in failing THEN "CLIENT_ID"
                 ELSE IF "DRIVE_URL" \in failing THEN "DRIVE_URL"
                 ELSE IF "WP_TOKEN" \in failing THEN "WP_TOKEN"
                 ELSE "DRIVE_TOKEN"
    IN  IF failing # {} THEN
            [ok |-> FALSE, error |-> first \o " not found in environment", cfg |-> <<>>]
        ELSE
            [ok |-> TRUE, error |-> "",
             cfg |-> << [api_url     |-> env_var(e, "API_URL").value,
                         drive_url   |-> env_var(e, "DRIVE_URL").value,
                         client_id   |-> env_var(e, "CLIENT_ID").value,
                         wp_token    |-> env_var(e, "WP_TOKEN").value,
                         drive_token |-> env_var(e, "DRIVE_TOKEN").value] >>]

\* The `?` chain of ApiConfig::from_env: the first failing lookup decides.
from_env(e) ==
    IF ~env_var(e, "API_URL").ok THEN
        [ok |-> FALSE, error |-> "API_URL not found in environment", cfg |-> <<>>]
    ELSE IF ~env_var(e, "DRIVE_URL").ok THEN
        [ok |-> FALSE, error |-> "DRIVE_URL not found in environment", cfg |-> <<>>]
    ELSE IF ~env_var(e, "CLIENT_ID").ok THEN
        [ok |-> FALSE, error |-> "CLIENT_ID not found in environment", cfg |-> <<>>]
    ELSE IF ~env_var(e, "WP_TOKEN").ok THEN
        [ok |-> FALSE, error |-> "WP_TOKEN not found in environment", cfg |-> <<>>]
    ELSE IF ~env_var(e, "DRIVE_TOKEN").ok THEN
        [ok |-> FALSE, error |-> "DRIVE_TOKEN not found in environment", cfg |-> <<>>]
    ELSE
        [ok |-> TRUE, error |-> "",
         cfg |-> << [api_url     |-> env_var(e, "API_URL").value,
                     drive_url   |-> env_var(e, "DRIVE_URL").value,
                     client_id   |-> env_var(e, "CLIENT_ID").value,
                     wp_token    |-> env_var(e, "WP_TOKEN").value,
                     drive_token |-> env_var(e, "DRIVE_TOKEN").value] >>]

\* enum ApiEndpoint
ApiEndpoint == {"LoginWs", "WorkspaceManagerWs", "GenerationWs", "CustomizationWs",
                "EnrichmentWs", "MembershipWs", "LicenceWs", "GalleryManagerWs",
                "PageManagerWs", "DriveSecurityWs", "ImageWs"}

\* ApiEndpoint::path
path(endpoint) ==
    CASE endpoint = "LoginWs"            -> "loginWs"
      [] endpoint = "WorkspaceManagerWs" -> "workspaceManagerWs"
      [] endpoint = "GenerationWs"       -> "generationWs"
      [] endpoint = "CustomizationWs"    -> "customizationWs"
      [] endpoint = "EnrichmentWs"       -> "enrichmentWs"
      [] endpoint = "MembershipWs"       -> "membershipWs"
      [] endpoint = "LicenceWs"          -> "licenceWs"
      [] endpoint = "GalleryManagerWs"   -> "galleryManagerWs"
      [] endpoint = "PageManagerWs"      -> "pageManagerWs"
      [] endpoint = "DriveSecurityWs"    -> "driveSecurityWs"
      [] endpoint = "ImageWs"            -> "imageWs"

---------------------------------------------------------------------------
(* Strings *)

\* str::ends_with
ends_with(s, suffix) ==
    /\ Len(s) >= Len(suffix)
    /\ SubSeq(s, Len(s) - Len(suffix) + 1, Len(s)) = suffix

Digit(d) == SubSeq("0123456789", d + 1, d + 1)

RECURSIVE DecimalDigits(_)
DecimalDigits(n) ==
    IF n < 10 THEN Digit(n) ELSE DecimalDigits(n \div 10) \o Digit(n % 10)

\* to_string that loses the sign
i64_to_string_unsigned(n) ==
    IF n < 0 THEN DecimalDigits(-n) ELSE DecimalDigits(n)

\* i64::to_string: an optional minus sign and the decimal digits
i64_to_string(n) ==
    IF n < 0 THEN "-" \o DecimalDigits(-n) ELSE DecimalDigits(n)

---------------------------------------------------------------------------
(* JSON.  A document is [t, s, items]: t its type, s the literal of a      *)
(* scalar, items the elements of an array (k = "") or the members of an   *)
(* object (k the key).  A body on the wire keeps its members in the order  *)
(* sent, duplicates included; a serde_json::Value keeps an object as a     *)
(* BTreeMap, that is sorted by key and without duplicates.                 *)

JNull == [t |-> "null", s |-> "null", items |-> <<>>]
JBool(b) == [t |-> "bool", s |-> IF b THEN "true" ELSE "false", items |-> <<>>]
JNum(literal) == [t |-> "num", s |-> literal, items |-> <<>>]
JStr(str) == [t |-> "str", s |-> str, items |-> <<>>]
JArr(elements) == [t |-> "arr", s |-> "", items |-> elements]
JObj(members) == [t |-> "obj", s |-> "", items |-> members]
NotJson == [t |-> "invalid", s |-> "<html>", items |-> <<>>]

Member(key, doc) == [k |-> key, d |-> doc]

\* Byte order of the keys the model uses (Ord for String in the BTreeMap).
KeyOrder == <<"a", "b", "c", "clientId", "globalId", "wishlistEnabled">>

KeyRank(key) == CHOOSE i \in 1..Len(KeyOrder) : KeyOrder[i] = key

\* BTreeMap::insert: replace the value of a key present, else insert in order.
map_insert(m, key, doc) ==
    IF \E i \in 1..Len(m) : m[i].k = key
    THEN [i \in 1..Len(m) |-> IF m[i].k = key THEN Member(key, doc) ELSE m[i]]
    ELSE LET smaller(e) == KeyRank(e.k) < KeyRank(key)
             larger(e) == KeyRank(e.k) > KeyRank(key)
         IN  SelectSeq(m, smaller) \o <<Member(key, doc)>> \o SelectSeq(m, larger)

RECURSIVE visit_map(_, _)
RECURSIVE value_from(_)

\* Visitor of serde_json::Value over a map: insert the entries in order.
visit_map(entries, acc) ==
    IF entries = <<>> THEN acc
    ELSE visit_map(Tail(entries),
                   map_insert(acc, Head(entries).k, value_from(Head(entries).d)))

\* Deserialize for serde_json::Value of a document.
value_from(doc) ==
    CASE doc.t = "obj" -> JObj(visit_map(doc.items, <<>>))
      [] doc.t = "arr" ->
            JArr([i \in 1..Len(doc.items) |-> Member("", value_from(doc.items[i].d))])
      [] OTHER -> doc

\* What serde reports it found where a map was expected.
Unexpected(doc) ==
    CASE doc.t = "null" -> "null"
      [] doc.t = "bool" -> "boolean " \o doc.s
      [] doc.t = "num"  -> "number " \o doc.s
      [] doc.t = "str"  -> "string " \o doc.s
      [] doc.t = "arr"  -> "sequence"
      [] OTHER          -> "map"

\* Deserialize for ApiResponse, a struct whose only field is #[serde(flatten)]:
\* the derive asks the deserializer for a map, buffers its entries and hands
\* them to the field's own Deserialize.
ApiResponse_deserialize(doc) ==
    IF doc.t = "invalid" THEN
        [ok |-> FALSE, error |-> "expected value at line 1 column 1", data |-> JNull]
    ELSE IF doc.t # "obj" THEN
        [ok |-> FALSE,
         error |-> "invalid type: " \o Unexpected(doc) \o ", expected struct ApiResponse",
         data |-> JNull]
    ELSE
        [ok |-> TRUE, error |-> "", data |-> JObj(visit_map(doc.items, <<>>))]

RECURSIVE Indent(_)
Indent(level) == IF level = 0 THEN "" ELSE "  " \o Indent(level - 1)

Quote(str) == "\"" \o str \o "\""

RECURSIVE pretty(_, _)
RECURSIVE pretty_items(_, _, _, _)

\* The elements or members of a non-empty container, one per line.
pretty_items(items, i, level, isObject) ==
    IF i > Len(items) THEN ""
    ELSE (IF i = 1 THEN "\n" ELSE ",\n")
         \o Indent(level)
         \o (IF isObject THEN Quote(items[i].k) \o ": " ELSE "")
         \o pretty(items[i].d, level)
         \o pretty_items(items, i + 1, level, isObject)

\* serde_json's PrettyFormatter with its two-space indent.
pretty(v, level) ==
    CASE v.t = "str" -> Quote(v.s)
      [] v.t = "arr" ->
            IF v.items = <<>> THEN "[]"
            ELSE "[" \o pretty_items(v.items, 1, level + 1, FALSE)
                     \o "\n" \o Indent(level) \o "]"
      [] v.t = "obj" ->
            IF v.items = <<>> THEN "{}"
            ELSE "{" \o pretty_items(v.items, 1, level + 1, TRUE)
                     \o "\n" \o Indent(level) \o "}"
      [] OTHER -> v.s

\* serde_json::to_string_pretty
to_string_pretty(v) == pretty(v, 0)

---------------------------------------------------------------------------
(* Base64 *)

Base64Alphabet == "ABCDEFGHIJKLMNOPQRSTUVWXYZabcdefghijklmnopqrstuvwxyz0123456789+/"

B64Char(i) == SubSeq(Base64Alphabet, i + 1, i + 1)

RECURSIVE base64_encode(_)
\* general_purpose::STANDARD.encode: three bytes to four characters, padded.
base64_encode(bytes) ==
    IF Len(bytes) = 0 THEN ""
    ELSE IF Len(bytes) = 1 THEN
        LET n == bytes[1] * 65536
        IN  B64Char(n \div 262144) \o B64Char((n \div 4096) % 64) \o "=="
    ELSE IF Len(bytes) = 2 THEN
        LET n == bytes[1] * 65536 + bytes[2] * 256
        IN  B64Char(n \div 262144) \o B64Char((n \div 4096) % 64)
            \o B64Char((n \div 64) % 64) \o "="
    ELSE
        LET n == bytes[1] * 65536 + bytes[2] * 256 + bytes[3]
        IN  B64Char(n \div 262144) \o B64Char((n \div 4096) % 64)
            \o B64Char((n \div 64) % 64) \o B64Char(n % 64)
            \o base64_encode(SubSeq(bytes, 4, Len(bytes)))

---------------------------------------------------------------------------
(* The shared client and the requests *)

starts_with(s, prefix) ==
    /\ Len(s) >= Len(prefix)
    /\ SubSeq(s, 1, Len(prefix)) = prefix

\* The origin a URL belongs to: the cookie store keeps cookies per origin.
Host(url) ==
    IF starts_with(url, EnvValue("API_URL")) THEN EnvValue("API_URL")
    ELSE IF starts_with(url, EnvValue("DRIVE_URL")) THEN EnvValue("DRIVE_URL")
    ELSE "other"

CookieIds == 1..MaxCookies

Cookie(i) == "sid" \o ToString(i) \o "=upstream"

RECURSIVE JoinCookies(_)
JoinCookies(ids) ==
    IF ids = {} THEN ""
    ELSE LET i == CHOOSE x \in ids : \A y \in ids : x <= y
         IN  IF ids = {i} THEN Cookie(i)
             ELSE Cookie(i) \o "; " \o JoinCookies(ids \ {i})

HasHeader(request, name) ==
    \E i \in 1..Len(request.headers) : request.headers[i][1] = name

HeaderValues(request, name) ==
    {request.headers[i][2] : i \in {j \in 1..Len(request.headers) : request.headers[j][1] = name}}

QueryPairs(request) == {request.query[i] : i \in 1..Len(request.query)}

\* Client::builder().cookie_store(true): on send, a request that carries no
\* Cookie header of its own gets the cookies stored for its origin.
with_stored_cookies(store, request) ==
    LET ids == {c.id : c \in {x \in store : x.host = Host(request.url)}}
    IN  IF HasHeader(request, "Cookie") \/ ids = {} THEN request
        ELSE [request EXCEPT !.headers = @ \o << <<"Cookie", JoinCookies(ids)>> >>]

\* The cookie store after a response from the URL's origin has come in.
store_cookies(store, url, ids) ==
    store \cup {[host |-> Host(url), id |-> i] : i \in ids}

\* make_get_request with the "/" between endpoint and method left out
make_get_request_no_slash(cfg, endpoint, method, params) ==
    [verb    |-> "GET",
     url     |-> cfg.api_url \o path(endpoint) \o method,
     headers |-> << <<"Content-Type", "application/json">>,
                    <<"Cookie", "WP_token=" \o cfg.wp_token>> >>,
     query   |-> params,
     body    |-> <<>>]

\* make_get_request up to its send
make_get_request(cfg, endpoint, method, params) ==
    [verb    |-> "GET",
     url     |-> cfg.api_url \o path(endpoint) \o "/" \o method,
     headers |-> << <<"Content-Type", "application/json">>,
                    <<"Cookie", "WP_token=" \o cfg.wp_token>> >>,
     query   |-> params,
     body    |-> <<>>]

\* make_put_request up to its send
make_put_request(cfg, endpoint, method, params, body) ==
    [verb    |-> "PUT",
     url     |-> cfg.api_url \o path(endpoint) \o "/" \o method,
     headers |-> << <<"Content-Type", "application/json">>,
                    <<"Cookie", "WP_token=" \o cfg.wp_token>> >>,
     query   |-> params,
     body    |-> <<body>>]

\* make_get_image_request up to its send
make_get_image_request(cfg, rel_url, params) ==
    [verb    |-> "GET",
     url     |-> cfg.drive_url \o cfg.client_id \o "/" \o rel_url,
     headers |-> <<>>,
     query   |-> params,
     body    |-> <<>>]

---------------------------------------------------------------------------
(* Results *)

\* McpError::internal_error(message, None)
internal_error(message) ==
    [ok |-> FALSE, code |-> -32603, message |-> message, content |-> <<>>]

\* Content::text
text_content(text) == [type |-> "text", text |-> text, data |-> "", mime_type |-> ""]

\* Content::image
image_content(data, mime_type) ==
    [type |-> "image", text |-> "", data |-> data, mime_type |-> mime_type]

\* CallToolResult::success
success(content) == [ok |-> TRUE, code |-> 0, message |-> "", content |-> content]

\* A status check that lets redirections through
is_success_below_400(status) == status >= 200 /\ status < 400

\* StatusCode::is_success
is_success(status) == status >= 200 /\ status < 300

\* make_get_request from its send on: Ok(ApiResponse) or Err(McpError)
get_request_outcome(reply) ==
    IF reply.kind = "error" THEN
        [ok |-> FALSE, err |-> internal_error("Request failed: " \o reply.msg), data |-> JNull]
    ELSE IF ~is_success(reply.status) THEN
        [ok |-> FALSE,
         err |-> internal_error("Request failed with status: " \o ToString(reply.status)),
         data |-> JNull]
    ELSE IF ~reply.body.read_ok THEN
        [ok |-> FALSE,
         err |-> internal_error("Failed to parse response: error decoding response body"),
         data |-> JNull]
    ELSE LET parsed == ApiResponse_deserialize(reply.body.doc)
         IN  IF ~parsed.ok THEN
                 [ok |-> FALSE,
                  err |-> internal_error("Failed to parse response: " \o parsed.error),
                  data |-> JNull]
             ELSE [ok |-> TRUE, err |-> success(<<>>), data |-> parsed.data]

\* make_put_request from its send on
put_request_outcome(reply) ==
    IF reply.kind = "error" THEN
        [ok |-> FALSE, err |-> internal_error("Request failed: " \o reply.msg), data |-> JNull]
    ELSE IF ~is_success(reply.status) THEN
        [ok |-> FALSE,
         err |-> internal_error("Request failed with status: " \o ToString(reply.status)),
         data |-> JNull]
    ELSE IF ~reply.body.read_ok THEN
        [ok |-> FALSE,
         err |-> internal_error("Failed to parse response: error decoding response body"),
         data |-> JNull]
    ELSE LET parsed == ApiResponse_deserialize(reply.body.doc)
         IN  IF ~parsed.ok THEN
                 [ok |-> FALSE,
                  err |-> internal_error("Failed to parse response: " \o parsed.error),
                  data |-> JNull]
             ELSE [ok |-> TRUE, err |-> success(<<>>), data |-> parsed.data]

\* make_get_image_request from its send on: Ok(Vec<u8>) or Err(McpError)
image_request_outcome(reply) ==
    IF reply.kind = "error" THEN
        [ok |-> FALSE, err |-> internal_error("Request failed: " \o reply.msg), bytes |-> <<>>]
    ELSE IF ~is_success(reply.status) THEN
        [ok |-> FALSE,
         err |-> internal_error("Request failed with status: " \o ToString(reply.status)),
         bytes |-> <<>>]
    ELSE IF ~reply.body.read_ok THEN
        [ok |-> FALSE,
         err |-> internal_error("Failed to read response bytes: error decoding response body"),
         bytes |-> <<>>]
    ELSE [ok |-> TRUE, err |-> success(<<>>), bytes |-> reply.body.bytes]

\* The end of the four JSON tools: `?` on the helper's result, then
\* to_string_pretty of the data and one text content.
json_tool_result(outcome) ==
    IF ~outcome.ok THEN outcome.err
    ELSE success(<<text_content(to_string_pretty(outcome.data))>>)

\* A MIME type lookup that takes ".PNG" for ".png"
mime_type_of_any_case(rel_url) ==
    IF ends_with(rel_url, ".png") \/ ends_with(rel_url, ".PNG") THEN "image/png"
    ELSE IF ends_with(rel_url, ".jpg") \/ ends_with(rel_url, ".jpeg") THEN "image/jpeg"
    ELSE IF ends_with(rel_url, ".gif") THEN "image/gif"
    ELSE IF ends_with(rel_url, ".webp") THEN "image/webp"
    ELSE "image/jpeg"

\* The MIME type get_cover_image derives from rel_url
mime_type_of(rel_url) ==
    IF ends_with(rel_url, ".png") THEN "image/png"
    ELSE IF ends_with(rel_url, ".jpg") \/ ends_with(rel_url, ".jpeg") THEN "image/jpeg"
    ELSE IF ends_with(rel_url, ".gif") THEN "image/gif"
    ELSE IF ends_with(rel_url, ".webp") THEN "image/webp"
    ELSE "image/jpeg"

\* The end of get_cover_image
cover_image_result(rel_url, outcome) ==
    IF ~outcome.ok THEN outcome.err
    ELSE success(<<image_content(base64_encode(outcome.bytes), mime_type_of(rel_url))>>)

---------------------------------------------------------------------------
(* The tools and their inputs *)

\* struct GetResourceRequest
GetResourceRequest == [resource_gid |-> "i64"]

\* struct ToggleWishlistRequest
ToggleWishlistRequest == [publication_gid |-> "i64", wishlist_enabled |-> "bool"]

\* struct GetImageRequest
GetImageRequest == [rel_url |-> "String"]

\* A handler without a Parameters argument
NoParameters == <<>>

\* A tool_router that get_cover_image is missing from
tool_router_without_cover_image ==
    {[name |-> "get_resource",             params |-> GetResourceRequest],
     [name |-> "get_publication_settings", params |-> GetResourceRequest],
     [name |-> "get_recent_resources",     params |-> NoParameters],
     [name |-> "toggle_wishlist",          params |-> ToggleWishlistRequest]}

\* The #[tool] methods the tool_router collects, each with its parameter type
tool_router ==
    {[name |-> "get_resource",             params |-> GetResourceRequest],
     [name |-> "get_publication_settings", params |-> GetResourceRequest],
     [name |-> "get_recent_resources",     params |-> NoParameters],
     [name |-> "toggle_wishlist",          params |-> ToggleWishlistRequest],
     [name |-> "get_cover_image",          params |-> GetImageRequest]}

Slots == 1..MaxInFlight

Gids == {-MaxGid, -1, 0, 1, MaxGid}

RelUrls == {"", "png", "a.png", "a.PNG", "a.jpg", "a.jpeg", "a.gif", "a.webp",
            "a.bmp", "a.png.bak", "covers/7/b.jpeg"}

Statuses == {200, 299, 304, 404}

ContentTypes == {"image/png", "text/html"}

ByteValues == {0, 77, 255}

ByteSeqs == UNION {[1..n -> ByteValues] : n \in 0..MaxBodyLen}

Scalars == {JNull, JBool(TRUE), JNum("1"), JStr("x")}

MemberDocs == {JNum("1"), JStr("x"), JObj(<<Member("a", JNull)>>)}

MemberSeqs ==
    UNION {[1..n -> {Member(k, d) : k \in {"a", "b"}, d \in MemberDocs}] : n \in 0..MaxMembers}

ElementSeqs == UNION {[1..n -> {Member("", d) : d \in MemberDocs}] : n \in 0..MaxMembers}

JsonDocs ==
    {NotJson} \cup Scalars \cup {JObj(m) : m \in MemberSeqs} \cup {JArr(e) : e \in ElementSeqs}

SetCookies == {{}} \cup {{i} : i \in CookieIds}

TransportErrors == {[kind |-> "error", msg |-> "error sending request"]}

\* What the upstream can answer to a request of a JSON tool
JsonReplies ==
    TransportErrors \cup
    {[kind |-> "response", status |-> st, set_cookie |-> sc,
      content_type |-> "application/json", body |-> b] :
        st \in Statuses, sc \in SetCookies,
        b \in {[read_ok |-> FALSE, doc |-> NotJson]}
              \cup {[read_ok |-> TRUE, doc |-> d] : d \in JsonDocs}}

\* What the upstream can answer to a request of get_cover_image
ImageReplies ==
    TransportErrors \cup
    {[kind |-> "response", status |-> st, set_cookie |-> sc,
      content_type |-> ct, body |-> b] :
        st \in Statuses, sc \in SetCookies, ct \in ContentTypes,
        b \in {[read_ok |-> FALSE, bytes |-> <<>>]}
              \cup {[read_ok |-> TRUE, bytes |-> bs] : bs \in ByteSeqs}}

Replies(tool) == IF tool = "get_cover_image" THEN ImageReplies ELSE JsonReplies

\* The smaller sets the concurrent specification draws from
FewGids == {-1, 1}

FewRelUrls == {"a.png", "cover"}

FewReplies(tool) ==
    LET body == IF tool = "get_cover_image"
                THEN [read_ok |-> TRUE, bytes |-> <<77>>]
                ELSE [read_ok |-> TRUE, doc |-> JObj(<<Member("a", JNum("1"))>>)]
        content_type == IF tool = "get_cover_image" THEN "image/png" ELSE "application/json"
    IN  TransportErrors \cup
        {[kind |-> "response", status |-> 404, set_cookie |-> {},
          content_type |-> content_type, body |-> body]} \cup
        {[kind |-> "response", status |-> 200, set_cookie |-> sc,
          content_type |-> content_type, body |-> body] :
            sc \in IF tool = "get_cover_image" THEN {{}, {1}} ELSE {{}}}

---------------------------------------------------------------------------
(* The state machine *)

Idle == [pc |-> "idle"]

Awaiting(tool, args, request) ==
    [pc |-> "awaiting", tool |-> tool, args |-> args, request |-> request, nsent |-> 1]

Init ==
    /\ \E present \in SUBSET {EnvVars[i] : i \in 1..Len(EnvVars)} :
           env = [name \in present |-> EnvValue(name)]
    /\ main_pc = "start"
    /\ startup_error = ""
    /\ config = <<>>
    /\ jar = {}
    /\ calls = [slot \in Slots |-> Idle]

\* WebPublication::new, called by main
New(client_built) ==
    /\ main_pc = "start"
    /\ LET loaded == from_env(env)
       IN  IF ~loaded.ok THEN
               /\ main_pc' = "failed"
               /\ startup_error' = loaded.error
               /\ config' = config
           ELSE IF ~client_built THEN
               /\ main_pc' = "failed"
               /\ startup_error' = "builder error"
               /\ config' = config
           ELSE
               /\ main_pc' = "constructed"
               /\ startup_error' = startup_error
               /\ config' = loaded.cfg
    /\ jar' = {}
    /\ UNCHANGED <<env, calls>>

\* main: webpub.serve(stdio()).await?
Serve(transport_up) ==
    /\ main_pc = "constructed"
    /\ IF transport_up
       THEN main_pc' = "serving" /\ startup_error' = startup_error
       ELSE main_pc' = "failed" /\ startup_error' = "initialize failed"
    /\ UNCHANGED <<env, config, jar, calls>>

\* tools/list, answered from the tool_router without an upstream request
list_tools(slot) ==
    /\ main_pc = "serving"
    /\ calls[slot].pc = "idle"
    /\ calls' = [calls EXCEPT ![slot] = [pc |-> "listed", tools |-> tool_router]]
    /\ UNCHANGED <<env, main_pc, startup_error, config, jar>>

\* The request leaves through the shared client; the handler awaits the reply.
Send(slot, tool, args, request) ==
    /\ main_pc = "serving"
    /\ calls[slot].pc = "idle"
    /\ calls' = [calls EXCEPT ![slot] = Awaiting(tool, args, with_stored_cookies(jar, request))]
    /\ UNCHANGED <<env, main_pc, startup_error, config, jar>>

\* get_resource up to its await
get_resource(slot, request) ==
    LET cfg == config[1]
        resource_gid_str == i64_to_string(request.resource_gid)
        params == << <<"clientId", cfg.client_id>>, <<"resourceGId", resource_gid_str>> >>
    IN  Send(slot, "get_resource", request,
             make_get_request(cfg, "WorkspaceManagerWs", "getResource", params))

\* get_publication_settings up to its await
get_publication_settings(slot, request) ==
    LET cfg == config[1]
        resource_gid_str == i64_to_string(request.resource_gid)
        params == << <<"clientId", cfg.client_id>>, <<"publicationGId", resource_gid_str>> >>
    IN  Send(slot, "get_publication_settings", request,
             make_get_request(cfg, "GenerationWs", "getPublicationSettings", params))

\* get_recent_resources up to its await
get_recent_resources(slot) ==
    LET cfg == config[1]
        params == << <<"clientId", cfg.client_id>>, <<"include", "PUBLICATION">>,
                     <<"itemsPerPage", "20">>, <<"pageNum", "0">> >>
    IN  Send(slot, "get_recent_resources", NoParameters,
             make_get_request(cfg, "WorkspaceManagerWs", "getRecentResources", params))

\* get_cover_image without the token parameter
get_cover_image_without_token(slot, request) ==
    LET cfg == config[1]
        params == <<>>
    IN  Send(slot, "get_cover_image", request,
             make_get_image_request(cfg, request.rel_url, params))

\* get_cover_image up to its await
get_cover_image(slot, request) ==
    LET cfg == config[1]
        params == << <<"token", cfg.drive_token>> >>
    IN  Send(slot, "get_cover_image", request,
             make_get_image_request(cfg, request.rel_url, params))

\* toggle_wishlist up to its await
toggle_wishlist(slot, request) ==
    LET cfg == config[1]
        params == << <<"clientId", cfg.client_id>> >>
        body == JObj(visit_map(<<Member("clientId", JStr(cfg.client_id)),
                                 Member("globalId", JNum(i64_to_string(request.publication_gid))),
                                 Member("wishlistEnabled", JBool(request.wishlist_enabled))>>,
                               <<>>))
    IN  Send(slot, "toggle_wishlist", request,
             make_put_request(cfg, "GenerationWs", "updatePublicationSettings", params, body))

\* What a handler returns once the upstream has answered
tool_result(tool, args, reply) ==
    CASE tool = "get_cover_image" ->
            cover_image_result(args.rel_url, image_request_outcome(reply))
      [] tool = "toggle_wishlist" -> json_tool_result(put_request_outcome(reply))
      [] OTHER -> json_tool_result(get_request_outcome(reply))

\* A receive that sends the request a second time after a failed exchange
receive_with_retry(slot, reply) ==
    /\ calls[slot].pc = "awaiting"
    /\ jar' = IF reply.kind = "response"
              THEN store_cookies(jar, calls[slot].request.url, reply.set_cookie)
              ELSE jar
    /\ calls' = [calls EXCEPT ![slot] =
                    IF ~tool_result(@.tool, @.args, reply).ok /\ @.nsent = 1
                    THEN [@ EXCEPT !.nsent = 2]
                    ELSE [pc |-> "returned", tool |-> @.tool, args |-> @.args,
                          request |-> @.request, nsent |-> @.nsent, reply |-> reply,
                          result |-> tool_result(@.tool, @.args, reply)]]
    /\ UNCHANGED <<env, main_pc, startup_error, config>>

\* The upstream answers (or the transport fails): the client stores the
\* cookies of a response and the handler runs to its return.
receive(slot, reply) ==
    /\ calls[slot].pc = "awaiting"
    /\ jar' = IF reply.kind = "response"
              THEN store_cookies(jar, calls[slot].request.url, reply.set_cookie)
              ELSE jar
    /\ calls' = [calls EXCEPT ![slot] =
                    [pc |-> "returned", tool |-> @.tool, args |-> @.args,
                     request |-> @.request, nsent |-> @.nsent, reply |-> reply,
                     result |-> tool_result(@.tool, @.args, reply)]]
    /\ UNCHANGED <<env, main_pc, startup_error, config>>

\* The result goes back to the MCP client; the slot is free again.
deliver(slot) ==
    /\ calls[slot].pc \in {"returned", "listed"}
    /\ calls' = [calls EXCEPT ![slot] = Idle]
    /\ UNCHANGED <<env, main_pc, startup_error, config, jar>>

\* The server handling up to MaxInFlight calls at once
Next ==
    \/ \E client_built \in BOOLEAN : New(client_built)
    \/ \E transport_up \in BOOLEAN : Serve(transport_up)
    \/ \E slot \in Slots : list_tools(slot)
    \/ \E slot \in Slots, gid \in FewGids : get_resource(slot, [resource_gid |-> gid])
    \/ \E slot \in Slots, gid \in FewGids :
           get_publication_settings(slot, [resource_gid |-> gid])
    \/ \E slot \in Slots : get_recent_resources(slot)
    \/ \E slot \in Slots, enabled \in BOOLEAN :
           toggle_wishlist(slot, [publication_gid |-> MaxGid, wishlist_enabled |-> enabled])
    \/ \E slot \in Slots, rel_url \in FewRelUrls : get_cover_image(slot, [rel_url |-> rel_url])
    \/ \E slot \in Slots :
           /\ calls[slot].pc = "awaiting"
           /\ \E reply \in FewReplies(calls[slot].tool) : receive(slot, reply)
    \/ \E slot \in Slots : deliver(slot)

Spec == Init /\ [][Next]_vars

\* One call at a time, over the whole range of inputs and replies
NextFull ==
    \/ \E client_built \in BOOLEAN : New(client_built)
    \/ \E transport_up \in BOOLEAN : Serve(transport_up)
    \/ list_tools(1)
    \/ \E gid \in Gids : get_resource(1, [resource_gid |-> gid])
    \/ \E gid \in Gids : get_publication_settings(1, [resource_gid |-> gid])
    \/ get_recent_resources(1)
    \/ \E gid \in Gids, enabled \in BOOLEAN :
           toggle_wishlist(1, [publication_gid |-> gid, wishlist_enabled |-> enabled])
    \/ \E rel_url \in RelUrls : get_cover_image(1, [rel_url |-> rel_url])
    \/ /\ calls[1].pc = "awaiting"
       /\ \E reply \in Replies(calls[1].tool) : receive(1, reply)
    \/ deliver(1)

SpecFull == Init /\ [][NextFull]_vars

---------------------------------------------------------------------------
(* Vocabulary of the properties *)

Active == {slot \in Slots : calls[slot].pc \in {"awaiting", "returned"}}

Returned == {slot \in Slots : calls[slot].pc = "returned"}

JsonTools == {"get_resource", "get_publication_settings", "get_recent_resources",
              "toggle_wishlist"}

SuccessStatus(status) == status \in 200..299

DigitValue(c) == CHOOSE d \in 0..9 : Digit(d) = c

RECURSIVE ParseDigits(_, _)
ParseDigits(str, acc) ==
    IF str = "" THEN acc
    ELSE ParseDigits(Tail(str), 10 * acc + DigitValue(Head(str)))

\* The integer a decimal literal denotes
ParseInt(str) ==
    IF Head(str) = "-" THEN -ParseDigits(Tail(str), 0) ELSE ParseDigits(str, 0)

B64Index(c) == CHOOSE i \in 0..63 : B64Char(i) = c

Char(str, i) == SubSeq(str, i, i)

RECURSIVE base64_decode(_)
\* The bytes a padded base64 text denotes
base64_decode(str) ==
    IF str = "" THEN <<>>
    ELSE LET i1 == B64Index(Char(str, 1))
             i2 == B64Index(Char(str, 2))
             b1 == i1 * 4 + (i2 \div 16)
         IN  IF Char(str, 3) = "=" THEN <<b1>>
             ELSE LET i3 == B64Index(Char(str, 3))
                      b2 == (i2 % 16) * 16 + (i3 \div 4)
                  IN  IF Char(str, 4) = "=" THEN <<b1, b2>>
                      ELSE LET i4 == B64Index(Char(str, 4))
                               b3 == (i3 % 4) * 64 + i4
                           IN  <<b1, b2, b3>> \o base64_decode(SubSeq(str, 5, Len(str)))

Missing == {i \in 1..Len(EnvVars) : EnvVars[i] \notin DOMAIN env}

FirstMissing == EnvVars[CHOOSE i \in Missing : \A j \in Missing : i <= j]

Lookup(pairs, key) == {pair[2] : pair \in {q \in pairs : q[1] = key}}

ObjectField(value, key) ==
    {value.items[i].d : i \in {j \in 1..Len(value.items) : value.items[j].k = key}}

---------------------------------------------------------------------------
(* Properties *)

FailedExchange(tool, reply) ==
    \/ reply.kind = "error"
    \/ ~SuccessStatus(reply.status)
    \/ ~reply.body.read_ok
    \/ tool \in JsonTools /\ reply.body.doc.t = "invalid"

\* The message of the first failure in the order send, status, body.
FirstFailure(tool, reply) ==
    IF reply.kind = "error" THEN "Request failed: " \o reply.msg
    ELSE IF ~SuccessStatus(reply.status)
    THEN "Request failed with status: " \o ToString(reply.status)
    ELSE IF tool \in JsonTools THEN "Failed to parse response: "
    ELSE "Failed to read response bytes: "

\* C2: a tool call whose exchange failed (transport failure, non-success
\* status, unreadable or non-JSON body) returns an internal error and no
\* content, and the error is that of the first failure in the order send,
\* status, body: a non-success status is reported whatever the body is.
C2_FirstErrorReported ==
    \A slot \in Returned :
        LET call == calls[slot]
        IN  FailedExchange(call.tool, call.reply) =>
                /\ ~call.result.ok
                /\ call.result.code = -32603
                /\ call.result.content = <<>>
                /\ starts_with(call.result.message, FirstFailure(call.tool, call.reply))
                /\ ( call.reply.kind = "error" \/ ~SuccessStatus(call.reply.status)
                     => call.result.message = FirstFailure(call.tool, call.reply) )

\* A JSON tool answered 404 with a body that is a valid JSON object.
C2_Witness ==
    \E slot \in Returned :
        /\ calls[slot].tool \in JsonTools
        /\ calls[slot].reply.kind = "response"
        /\ calls[slot].reply.status = 404
        /\ calls[slot].reply.body.read_ok
        /\ calls[slot].reply.body.doc.t = "obj"
        /\ calls[slot].result.message = "Request failed with status: 404"

\* C3: a JSON tool answered with a success status and a body that is valid
\* JSON of any shape returns a success with exactly one text content, the
\* pretty-printed form of the value sent.
C3_AnyJsonReformatted ==
    \A slot \in Returned :
        LET call == calls[slot]
        IN  ( /\ call.tool \in JsonTools
              /\ call.reply.kind = "response"
              /\ SuccessStatus(call.reply.status)
              /\ call.reply.body.read_ok
              /\ call.reply.body.doc.t # "invalid" )
            => call.result = success(<<text_content(
                                 to_string_pretty(value_from(call.reply.body.doc)))>>)

\* The part of a request the handler itself builds
Built(request) == [verb |-> request.verb, url |-> request.url,
                   query |-> request.query, body |-> request.body]

\* Two calls of one tool with different inputs have built different requests.
DistinctInputsDistinctRequests ==
    \A s1, s2 \in Active :
        ( calls[s1].tool = calls[s2].tool /\ calls[s1].args # calls[s2].args )
        => Built(calls[s1].request) # Built(calls[s2].request)

ResourceGidInQuery(call, endpoint_method, key) ==
    /\ \E value \in Lookup(QueryPairs(call.request), key) :
           ParseInt(value) = call.args.resource_gid
    /\ call.request.url = env["API_URL"] \o endpoint_method
    /\ call.request.body = <<>>
    /\ Len(call.request.query) = 2
    /\ <<"clientId", env["CLIENT_ID"]>> \in QueryPairs(call.request)

WishlistInBody(call) ==
    /\ Len(call.request.body) = 1
    /\ \E value \in ObjectField(call.request.body[1], "globalId") :
           value.t = "num" /\ ParseInt(value.s) = call.args.publication_gid
    /\ ObjectField(call.request.body[1], "wishlistEnabled")
           = {JBool(call.args.wishlist_enabled)}
    /\ ObjectField(call.request.body[1], "clientId") = {JStr(env["CLIENT_ID"])}
    /\ Len(call.request.body[1].items) = 3
    /\ call.request.url = env["API_URL"] \o "generationWs/updatePublicationSettings"
    /\ call.request.query = << <<"clientId", env["CLIENT_ID"]>> >>

RelUrlInQueryOrBody(call) ==
    \/ \E pair \in QueryPairs(call.request) : pair[2] = call.args.rel_url
    \/ call.request.body # <<>>

RelUrlInPath(call) ==
    /\ call.request.url = env["DRIVE_URL"] \o env["CLIENT_ID"] \o "/" \o call.args.rel_url
    /\ call.request.query = << <<"token", env["DRIVE_TOKEN"]>> >>
    /\ call.request.body = <<>>

\* What the first four tools do with their inputs
JsonInputsTranslated(call) ==
    CASE call.tool = "get_resource" ->
            ResourceGidInQuery(call, "workspaceManagerWs/getResource", "resourceGId")
      [] call.tool = "get_publication_settings" ->
            ResourceGidInQuery(call, "generationWs/getPublicationSettings", "publicationGId")
      [] call.tool = "toggle_wishlist" -> WishlistInBody(call)
      [] OTHER -> TRUE

\* C4 as claimed: every input of every tool, rel_url of get_cover_image
\* included, is in the query string or the JSON body of the request.
C4_InputsInQueryOrBody ==
    /\ \A slot \in Active :
           /\ JsonInputsTranslated(calls[slot])
           /\ calls[slot].tool = "get_cover_image" => RelUrlInQueryOrBody(calls[slot])
    /\ DistinctInputsDistinctRequests

\* C4 amended: resource_gid is the query parameter resourceGId or
\* publicationGId, publication_gid and wishlist_enabled are globalId and
\* wishlistEnabled of the JSON body, rel_url is the end of the URL (after
\* DRIVE_URL, CLIENT_ID and "/") and in neither query nor body; nothing else
\* of the request depends on the inputs, and two calls of one tool with
\* different inputs build different requests.
C4_InputsTranslated ==
    /\ \A slot \in Active :
           /\ JsonInputsTranslated(calls[slot])
           /\ calls[slot].tool = "get_cover_image" => RelUrlInPath(calls[slot])
    /\ DistinctInputsDistinctRequests

\* Two get_cover_image calls in flight with different rel_url, each at the
\* end of its URL.
C4_Witness ==
    \E s1, s2 \in Active :
        /\ calls[s1].tool = "get_cover_image" /\ calls[s1].args.rel_url = "a.png"
        /\ calls[s2].tool = "get_cover_image" /\ calls[s2].args.rel_url = "cover"
        /\ ends_with(calls[s1].request.url, "/a.png")
        /\ ends_with(calls[s2].request.url, "/cover")

\* C5: every request sent carries a credential read from the environment:
\* the session cookie WP_token with the value of WP_TOKEN, or the token
\* parameter with the value of DRIVE_TOKEN.
C5_EveryRequestAuthenticated ==
    \A slot \in Active :
        \/ "WP_token=" \o env["WP_TOKEN"] \in HeaderValues(calls[slot].request, "Cookie")
        \/ <<"token", env["DRIVE_TOKEN"]>> \in QueryPairs(calls[slot].request)

\* A get_cover_image request and a JSON tool's request in flight together.
C5_Witness ==
    \E s1, s2 \in Active :
        /\ calls[s1].tool = "get_cover_image"
        /\ <<"token", "drive-secret">> \in QueryPairs(calls[s1].request)
        /\ calls[s2].tool = "toggle_wishlist"
        /\ HeaderValues(calls[s2].request, "Cookie") = {"WP_token=wp-secret"}

SegmentPaths == {path(endpoint) : endpoint \in ApiEndpoint}

MethodNames == {"getResource", "getPublicationSettings", "getRecentResources",
                "updatePublicationSettings"}

ThroughSegment(url) ==
    \E base \in {env["API_URL"], env["DRIVE_URL"]}, segment \in SegmentPaths :
        starts_with(url, base \o segment \o "/")

\* C6 as claimed: the URL of every request, that of get_cover_image included,
\* is a base URL, one of the eleven path segments, "/" and a method name.
C6_EveryUrlThroughSegment ==
    /\ Cardinality(SegmentPaths) = 11
    /\ \A slot \in Active : ThroughSegment(calls[slot].request.url)

\* C6 amended: the URL of every request of the four JSON tools is API_URL, one
\* of the eleven path segments, "/" and a method name; the URL of a
\* get_cover_image request is DRIVE_URL, CLIENT_ID, "/" and rel_url, with no
\* path segment put in.
C6_JsonUrlsThroughSegment ==
    /\ Cardinality(SegmentPaths) = 11
    /\ \A slot \in Active :
           IF calls[slot].tool \in JsonTools
           THEN \E segment \in SegmentPaths, method \in MethodNames :
                    calls[slot].request.url = env["API_URL"] \o segment \o "/" \o method
           ELSE calls[slot].request.url
                    = env["DRIVE_URL"] \o env["CLIENT_ID"] \o "/" \o calls[slot].args.rel_url

\* A request through generationWs and a cover-image request in flight.
C6_Witness ==
    \E s1, s2 \in Active :
        /\ calls[s1].tool = "get_publication_settings"
        /\ calls[s1].request.url = "https://api.example/generationWs/getPublicationSettings"
        /\ calls[s2].tool = "get_cover_image"
        /\ calls[s2].request.url = "https://drive.example/client42/cover"

Listed == {slot \in Slots : calls[slot].pc = "listed"}

ThreeShapes == {[resource_gid |-> "i64"],
                [publication_gid |-> "i64", wishlist_enabled |-> "bool"],
                [rel_url |-> "String"]}

ParamsOf(tools, name) == {t.params : t \in {x \in tools : x.name = name}}

\* C7 as claimed: five tools are advertised and each takes a parameter object
\* of one of the three shapes.
C7_EveryToolTakesParameters ==
    \A slot \in Listed :
        /\ Cardinality({t.name : t \in calls[slot].tools}) = 5
        /\ \A t \in calls[slot].tools : t.params \in ThreeShapes

\* C7 amended: five tools are advertised; get_resource,
\* get_publication_settings, toggle_wishlist and get_cover_image take a
\* parameter object of one of the three shapes, get_recent_resources takes no
\* parameters; every call handled has the inputs of its tool's shape.
C7_FourToolsTakeParameters ==
    /\ \A slot \in Listed :
           /\ Cardinality(calls[slot].tools) = 5
           /\ {t.name : t \in calls[slot].tools} = JsonTools \cup {"get_cover_image"}
           /\ \A t \in calls[slot].tools :
                  IF t.name = "get_recent_resources" THEN t.params = <<>>
                  ELSE t.params \in ThreeShapes
    /\ \A s1 \in Listed, s2 \in Active :
           ParamsOf(calls[s1].tools, calls[s2].tool)
               = {[field \in DOMAIN calls[s2].args |->
                      CASE field \in {"resource_gid", "publication_gid"} -> "i64"
                        [] field = "wishlist_enabled" -> "bool"
                        [] OTHER -> "String"]}

\* The tools are listed while a get_recent_resources call is in flight.
C7_Witness ==
    \E s1 \in Listed, s2 \in Active : calls[s2].tool = "get_recent_resources"

\* C8: the request of a call depends on nothing but the call's inputs and the
\* configuration: two calls of one tool with the same inputs send the same
\* request, whatever calls and replies came before.
C8_RequestFromOwnInputsOnly ==
    \A s1, s2 \in Active :
        ( calls[s1].tool = calls[s2].tool /\ calls[s1].args = calls[s2].args )
        => calls[s1].request = calls[s2].request

ErrorNaming(name) == name \o " not found in environment"

\* C9: the server is constructed and serves only with all five variables
\* present; with one missing, startup fails with the error naming the first
\* missing one in the order API_URL, DRIVE_URL, CLIENT_ID, WP_TOKEN,
\* DRIVE_TOKEN, nothing is served and no call is handled; while the server
\* runs, its configuration is what the environment gave, whatever calls ran.
C9_StartupNeedsAllVariables ==
    /\ Missing # {} =>
           /\ main_pc \in {"start", "failed"}
           /\ main_pc = "failed" => startup_error = ErrorNaming(FirstMissing)
           /\ config = <<>>
           /\ \A slot \in Slots : calls[slot].pc = "idle"
    /\ main_pc \in {"constructed", "serving"} =>
           /\ Missing = {}
           /\ config = << [api_url     |-> env["API_URL"],
                           drive_url   |-> env["DRIVE_URL"],
                           client_id   |-> env["CLIENT_ID"],
                           wp_token    |-> env["WP_TOKEN"],
                           drive_token |-> env["DRIVE_TOKEN"]] >>

\* Startup has failed with DRIVE_URL and WP_TOKEN missing.
C9_Witness ==
    /\ main_pc = "failed"
    /\ Missing = {2, 4}
    /\ startup_error = "DRIVE_URL not found in environment"

\* The MIME type the suffix of rel_url stands for, upper and lower case apart
SuffixMime(rel_url) ==
    LET n == Len(rel_url)
        last4 == IF n >= 4 THEN SubSeq(rel_url, n - 3, n) ELSE "none"
        last5 == IF n >= 5 THEN SubSeq(rel_url, n - 4, n) ELSE "none"
    IN  CASE last4 = ".png"  -> "image/png"
          [] last4 = ".jpg"  -> "image/jpeg"
          [] last5 = ".jpeg" -> "image/jpeg"
          [] last4 = ".gif"  -> "image/gif"
          [] last5 = ".webp" -> "image/webp"
          [] OTHER           -> "image/jpeg"

\* C10: get_cover_image answered with a success status and a body returns a
\* success with exactly one image content: its data decodes from base64 to
\* the bytes of the body, the empty body included, and its MIME type is that
\* of the suffix of rel_url, whatever the content type and the bytes are.
C10_CoverImageEncoded ==
    \A slot \in Returned :
        LET call == calls[slot]
        IN  ( /\ call.tool = "get_cover_image"
              /\ call.reply.kind = "response"
              /\ SuccessStatus(call.reply.status)
              /\ call.reply.body.read_ok )
            => /\ call.result.ok
               /\ Len(call.result.content) = 1
               /\ call.result.content[1].type = "image"
               /\ base64_decode(call.result.content[1].data) = call.reply.body.bytes
               /\ Len(call.result.content[1].data) = 4 * ((Len(call.reply.body.bytes) + 2) \div 3)
               /\ call.result.content[1].mime_type = SuffixMime(call.args.rel_url)

\* "a.PNG" answered 299 with content type image/png and two bytes: image/jpeg.
C10_Witness ==
    \E slot \in Returned :
        /\ calls[slot].tool = "get_cover_image"
        /\ calls[slot].args.rel_url = "a.PNG"
        /\ calls[slot].reply.kind = "response"
        /\ calls[slot].reply.status = 299
        /\ calls[slot].reply.content_type = "image/png"
        /\ calls[slot].reply.body.read_ok
        /\ calls[slot].reply.body.bytes = <<255, 0>>
        /\ calls[slot].result.ok
        /\ calls[slot].result.content[1].data = "/wA="
        /\ calls[slot].result.content[1].mime_type = "image/jpeg"

====
